---- MODULE Spec2Model ----
(***************************************************************************)
(* A model of the toy EdgeQL evaluator (edb/tools/toy_eval_model.py): the  *)
(* value model, the builtins table, the path analyzer, the query input     *)
(* list builder and the recursive evaluator, driven through the entry      *)
(* point go(q, db).                                                        *)
(*                                                                         *)
(* Values are tagged tuples: <<"int", n>>, <<"str", s>>, <<"obj", id>>,    *)
(* <<"uuid", n>>, <<"tup", <<v1, ..., vn>>>>, and None is <<"none">>.      *)
(* Python's bool is a subclass of int (True == 1, False == 0), so a        *)
(* boolean is the value <<"int", 1>> or <<"int", 0>>.                      *)
(*                                                                         *)
(* Every evaluation returns an outcome [v, err, calls]: the multiset v (a  *)
(* sequence), the exception that unwound the evaluation ("" when none),    *)
(* and a log of the calls made to builtins with an OPTIONAL position.      *)
(*                                                                         *)
(* Three specifications: Spec runs go on one query and one database,       *)
(* RefsSpec applies make_query_input_list to lists of paths, and           *)
(* SessionSpec is the transaction stack of the pgsql Session               *)
(* (edgedb/server/pgsql/session.py) under begin, commit, rollback and      *)
(* rollback_all.                                                           *)
(***************************************************************************)
EXTENDS Integers, Sequences, FiniteSets, TLC

\* ------------------------------------------------------------------ bounds

\* Set literals of the checked queries draw their elements from 1..MaxLit.
MaxLit == 3

\* The generated databases give Person.tag one of the first NumTags tags.
NumTags == 2

\* make_query_input_list is applied to lists of at most MaxRefs direct paths.
MaxRefs == 2

\* A Session begins at most MaxXacts backend transactions.
MaxXacts == 3

\* ------------------------------------------------------------ small helpers

Range(s) == {s[i] : i \in DOMAIN s}

RECURSIVE Flatten(_)
Flatten(ss) == IF ss = <<>> THEN <<>> ELSE Head(ss) \o Flatten(Tail(ss))

Last(s) == s[Len(s)]

\* `x = e` followed by the rest of the function.
With(x, F(_)) == F(x)

Front(s) == SubSeq(s, 1, Len(s) - 1)

\* ------------------------------------------------------------------ values

IntV(n) == <<"int", n>>
StrV(s) == <<"str", s>>
Bool(b) == <<"int", IF b THEN 1 ELSE 0>>
Tup(vs) == <<"tup", vs>>
Uuid(n) == <<"uuid", n>>
Dict(kvs) == <<"dict", kvs>>
None == <<"none">>

Kind(v) == v[1]

\* Python's str comparison (by code point) over the strings the model uses,
\* listed in increasing order.
SortedStrings ==
    << "0", "1", "<", ">", "Emmanuel Villip", "Madeline Hatch", "Note", "Person",
       "Phil Emarg", "a", "b", "blarg", "boxing", "c", "d", "dynamic", "id",
       "lolol", "name", "note", "notes", "tag", "unboxing", "x", "y" >>

StrRank(s) == CHOOSE i \in DOMAIN SortedStrings : SortedStrings[i] = s

StrLt(a, b) == StrRank(a) < StrRank(b)

\* bool(x): an int is true when non-zero, a str or tuple when non-empty, an
\* Obj or a UUID always.
Truthy(v) ==
    CASE Kind(v) = "int" -> v[2] # 0
      [] Kind(v) = "str" -> v[2] # ""
      [] Kind(v) = "tup" -> v[2] # <<>>
      [] OTHER -> TRUE

\* ---------------------------------------------------------------- database

\* bsid(n): the object ids of the toy database.
bsid(n) == Uuid(n)

\* Obj(id): equality of two Obj is equality of their ids.
Obj(id) == <<"obj", id>>

bslink(n) == Obj(bsid(n))

PersonT == "Person"
NoteT == "Note"

\* An attribute value of a record is a scalar value or a Python list,
\* <<"list", <<v1, ..., vn>>>>.
List(vs) == <<"list", vs>>

\* mk_db: the records in insertion order (dict iteration order).
mk_db(data) == data

DB1 == mk_db(<<
    [id |-> bsid(16), __type__ |-> StrV(PersonT),
     name |-> StrV("Phil Emarg"), notes |-> List(<<bslink(32), bslink(33)>>)],
    [id |-> bsid(17), __type__ |-> StrV(PersonT),
     name |-> StrV("Madeline Hatch"), notes |-> List(<<bslink(33)>>)],
    [id |-> bsid(18), __type__ |-> StrV(PersonT),
     name |-> StrV("Emmanuel Villip")],
    [id |-> bsid(32), __type__ |-> StrV(NoteT), name |-> StrV("boxing")],
    [id |-> bsid(33), __type__ |-> StrV(NoteT), name |-> StrV("unboxing"),
     note |-> StrV("lolol")],
    [id |-> bsid(34), __type__ |-> StrV(NoteT), name |-> StrV("dynamic"),
     note |-> StrV("blarg")] >>)

\* ctx.db[id]: the record stored under the id, or "KeyError".
HasRecord(db, id) == \E i \in DOMAIN db : db[i].id = id

Record(db, id) == db[CHOOSE i \in DOMAIN db : db[i].id = id]

get_links(obj, key) ==
    IF key \notin DOMAIN obj THEN <<>>
    ELSE IF Kind(obj[key]) = "list" THEN obj[key][2]
    ELSE <<obj[key]>>

\* ------------------------------------------------------------------- paths

\* Path elements are tuples, as the NamedTuples of the source are.
IPartial == <<"IPartial">>
IExpr(e) == <<"IExpr", e>>
IORef(name) == <<"IORef", name>>
ITypeIntersection(typ) == <<"ITypeIntersection", typ>>
IPtr(ptr, direction) == <<"IPtr", ptr, direction>>

IsIORef(e) == e[1] = "IORef"

RECURSIVE dedup_into(_, _)
dedup_into(old, new) ==
    IF old = <<>> THEN new
    ELSE dedup_into(Tail(old),
                    IF \E i \in DOMAIN new : new[i] = Head(old)
                    THEN new ELSE Append(new, Head(old)))

\* dedup that keeps every occurrence.
dedup_keeping(old) == old

dedup(old) == dedup_into(old, <<>>)

RECURSIVE longest_common_prefix(_, _)
longest_common_prefix(p1, p2) ==
    IF p1 = <<>> \/ p2 = <<>> THEN <<>>
    ELSE IF Head(p1) = Head(p2)
         THEN <<Head(p1)>> \o longest_common_prefix(Tail(p1), Tail(p2))
         ELSE <<>>

\* The fields of a path element, which is what Python compares: the
\* NamedTuples of the source are plain tuples to ==, < and hash.
Fields(e) == Tail(e)

\* Python's tuple comparison of two tuples of strings.
RECURSIVE StrTupleLt(_, _)
StrTupleLt(a, b) ==
    IF b = <<>> THEN FALSE
    ELSE IF a = <<>> THEN TRUE
    ELSE IF Head(a) = Head(b) THEN StrTupleLt(Tail(a), Tail(b))
    ELSE StrLt(Head(a), Head(b))

\* Python's tuple comparison of two paths of ORef, Ptr and TypeIntersection
\* elements (the only ones a query input list holds).
RECURSIVE PathLt(_, _)
PathLt(p, q) ==
    IF q = <<>> THEN FALSE
    ELSE IF p = <<>> THEN TRUE
    ELSE IF Fields(Head(p)) = Fields(Head(q)) THEN PathLt(Tail(p), Tail(q))
    ELSE StrTupleLt(Fields(Head(p)), Fields(Head(q)))

\* sorted(S) of a set of paths.
RECURSIVE SortedPaths(_)
SortedPaths(S) ==
    IF S = {} THEN <<>>
    ELSE LET m == CHOOSE x \in S : \A y \in S \ {x} : PathLt(x, y)
         IN  <<m>> \o SortedPaths(S \ {m})

\* --------------------------------------------------------------------- AST

\* The qlast nodes the evaluator handles, as records tagged by class name.
NoneNode == [k |-> "None"]
IntegerConstant(n) == [k |-> "IntegerConstant", value |-> n]
StringConstant(s) == [k |-> "StringConstant", value |-> s]
SetNode(elems) == [k |-> "Set", elements |-> elems]
TupleNode(elems) == [k |-> "Tuple", elements |-> elems]
NamedTupleElement(name, val) == [name |-> name, val |-> val]
NamedTuple(elems) == [k |-> "NamedTuple", elements |-> elems]
ObjectRef(name) == [k |-> "ObjectRef", name |-> name]
Ptr(name, direction) == [k |-> "Ptr", ptr |-> name, direction |-> direction]
TypeIntersection(typ) == [k |-> "TypeIntersection", type |-> typ]
Path(steps) == [k |-> "Path", partial |-> FALSE, steps |-> steps]
PartialPath(steps) == [k |-> "Path", partial |-> TRUE, steps |-> steps]
BinOp(l, op, r) == [k |-> "BinOp", op |-> op, left |-> l, right |-> r]
UnaryOp(op, e) == [k |-> "UnaryOp", op |-> op, operand |-> e]
FunctionCall(f, args) == [k |-> "FunctionCall", func |-> f, args |-> args]
SortExpr(path, direction, nones_order) ==
    [path |-> path, direction |-> direction, nones_order |-> nones_order]
AliasedExpr(alias, expr) == [alias |-> alias, expr |-> expr]
SelectQuery(aliases, result, result_alias, where, orderby, offset, limit) ==
    [k |-> "SelectQuery", aliases |-> aliases, result |-> result,
     result_alias |-> result_alias, where |-> where, orderby |-> orderby,
     offset |-> offset, limit |-> limit]
ForQuery(iterator, iterator_alias, result) ==
    [k |-> "ForQuery", iterator |-> iterator,
     iterator_alias |-> iterator_alias, result |-> result]

\* SELECT e with no clauses.
Select(e) == SelectQuery(<<>>, e, "", NoneNode, <<>>, NoneNode, NoneNode)

\* --------------------------------------------------------- builtins table

SET_OF == "SET_OF"
OPTIONAL == "OPTIONAL"
SINGLETON == "SINGLETON"

\* BASIS: the builtins with a SET OF or OPTIONAL argument position.
BASIS ==
    [op \in {"count", "sum", "min", "max", "all", "any", "enumerate", "IN",
             "??", "EXISTS", "DISTINCT", "IF", "UNION", "?=", "?!="} |->
        CASE op \in {"count", "sum", "min", "max", "all", "any", "enumerate",
                     "EXISTS", "DISTINCT"} -> <<SET_OF>>
          [] op = "IN" -> <<SINGLETON, SET_OF>>
          [] op = "??" -> <<OPTIONAL, SET_OF>>
          [] op = "IF" -> <<SET_OF, SINGLETON, SET_OF>>
          [] op = "UNION" -> <<SET_OF, SET_OF>>
          [] op \in {"?=", "?!="} -> <<OPTIONAL, OPTIONAL>>]

\* BASIS.get(op): the argument specs, or <<>> for None.
arg_specs_of(op) == IF op \in DOMAIN BASIS THEN BASIS[op] ELSE <<>>

\* arg_specs and arg_specs[i] == m
SpecIs(specs, i, m) == specs # <<>> /\ specs[i] = m

\* ------------------------------------------------------------ preparation

simplify_path(path) ==
    (IF path.partial THEN <<IPartial>> ELSE <<>>) \o
    [i \in DOMAIN path.steps |->
        LET step == path.steps[i] IN
        CASE step.k = "ObjectRef" -> IORef(step.name)
          [] step.k = "Ptr" -> IPtr(step.ptr, step.direction)
          [] step.k = "TypeIntersection" -> ITypeIntersection(step.type)
          [] OTHER -> IExpr(step)]

\* PathFinder: the triples (path, in_optional, in_subquery) in visiting order.
RECURSIVE visit(_, _, _)
RECURSIVE visit_list(_, _, _)
RECURSIVE visit_func_or_op(_, _, _, _, _)

visit_list(nodes, in_optional, in_subquery) ==
    IF nodes = <<>> THEN <<>>
    ELSE visit(Head(nodes), in_optional, in_subquery)
         \o visit_list(Tail(nodes), in_optional, in_subquery)

visit_func_or_op(specs, args, i, in_optional, in_subquery) ==
    IF i > Len(args) THEN <<>>
    ELSE visit(args[i],
               in_optional \/ SpecIs(specs, i, OPTIONAL),
               in_subquery \/ SpecIs(specs, i, SET_OF))
         \o visit_func_or_op(specs, args, i + 1, in_optional, in_subquery)

visit(node, in_optional, in_subquery) ==
    CASE node.k = "Path" ->
             <<<<node, in_optional, in_subquery>>>>
             \o visit_list(node.steps, in_optional, in_subquery)
      [] node.k = "SelectQuery" ->
             visit_list([i \in DOMAIN node.aliases |-> node.aliases[i].expr]
                        \o <<node.result, node.where>>
                        \o [i \in DOMAIN node.orderby |-> node.orderby[i].path]
                        \o <<node.offset, node.limit>>,
                        in_optional, TRUE)
      [] node.k = "ForQuery" ->
             visit_list(<<node.iterator, node.result>>, in_optional, TRUE)
      [] node.k = "BinOp" ->
             visit_func_or_op(arg_specs_of(node.op), <<node.left, node.right>>,
                              1, in_optional, in_subquery)
      [] node.k = "UnaryOp" ->
             visit_func_or_op(arg_specs_of(node.op), <<node.operand>>,
                              1, in_optional, in_subquery)
      [] node.k = "FunctionCall" ->
             visit_func_or_op(arg_specs_of(node.func), node.args,
                              1, in_optional, in_subquery)
      [] node.k \in {"Set", "Tuple"} ->
             visit_list(node.elements, in_optional, in_subquery)
      [] node.k = "NamedTuple" ->
             visit_list([i \in DOMAIN node.elements |-> node.elements[i].val],
                        in_optional, in_subquery)
      [] OTHER -> <<>>

find_paths(e, extra_subqs) ==
    visit(e, FALSE, FALSE) \o visit_list(extra_subqs, FALSE, TRUE)

\* analyze_paths: direct paths, subquery paths, and the prefixes whose
\* always_optional entry was set to False (every other entry reads True).
analyze_paths(q, extra_subqs) ==
    With(find_paths(q, extra_subqs), LAMBDA found :
      LET paths_opt == [i \in DOMAIN found |->
                        <<simplify_path(found[i][1]), found[i][2], found[i][3]>>]
          direct == SelectSeq(paths_opt, LAMBDA t : ~t[3])
          subq == SelectSeq(paths_opt, LAMBDA t : t[3])
      IN  [direct_paths |-> [i \in DOMAIN direct |-> direct[i][1]],
           subquery_paths |-> [i \in DOMAIN subq |-> subq[i][1]],
           not_optional |->
             UNION {{SubSeq(direct[i][1], 1, n) : n \in 1..Len(direct[i][1])}
                    : i \in {j \in DOMAIN direct : ~direct[j][2]}}])

always_optional(an, path) == path \notin an.not_optional

\* find_common_prefixes that compares each path with the later ones only.
find_common_prefixes_later(direct_refs, subquery_refs) ==
    UNION {
        LET x == direct_refs[i]
            ys == SubSeq(direct_refs, i + 1, Len(direct_refs)) \o subquery_refs
            pfxs == {longest_common_prefix(x, ys[j]) : j \in DOMAIN ys} \ {<<>>}
        IN  IF pfxs = {} THEN {x} ELSE pfxs
        : i \in DOMAIN direct_refs }

find_common_prefixes(direct_refs, subquery_refs) ==
    UNION {
        LET x == direct_refs[i]
            ys == SubSeq(direct_refs, i, Len(direct_refs)) \o subquery_refs
            pfxs == {longest_common_prefix(x, ys[j]) : j \in DOMAIN ys} \ {<<>>}
        IN  IF pfxs = {} THEN {x} ELSE pfxs
        : i \in DOMAIN direct_refs }

\* make_query_input_list with the test against the outer list inverted.
make_query_input_list_inverted(direct_refs, subquery_refs, old) ==
    LET refs == SelectSeq(direct_refs, LAMBDA x : IsIORef(x[1]))
        qil == find_common_prefixes(refs, subquery_refs)
    IN  SortedPaths({x \in qil : x \in Range(old)})

make_query_input_list(direct_refs, subquery_refs, old) ==
    LET refs == SelectSeq(direct_refs, LAMBDA x : IsIORef(x[1]))
        qil == find_common_prefixes(refs, subquery_refs)
    IN  SortedPaths({x \in qil : x \notin Range(old)})

\* ---------------------------------------------------------------- outcomes

\* What an evaluation returns: the multiset, the exception that ended it
\* ("" when it returned), and the calls logged on the way.
Ok(v) == [v |-> v, err |-> "", calls |-> {}]
Raise(e) == [v |-> <<>>, err |-> e, calls |-> {}]
Failed(r) == r.err # ""

\* r2 evaluated after r1 returned: r2 with the calls of r1 before it.
After(r1, r2) == [r2 EXCEPT !.calls = r1.calls \cup @]

\* r, then the rest of the function applied to what r returned, unless r
\* raised.
Then(r, F(_)) == IF Failed(r) THEN r ELSE After(r, F(r.v))

\* A scalar function returns a value or <<"error", exception>>.
Error(e) == <<"error", e>>
IsError(v) == Kind(v) = "error"

\* The results of the applications in order: the first exception raised
\* ends the loop.
Collect(vals) ==
    IF \E i \in DOMAIN vals : IsError(vals[i])
    THEN Raise(vals[CHOOSE i \in DOMAIN vals :
                      /\ IsError(vals[i])
                      /\ \A j \in 1..(i - 1) : ~IsError(vals[j])][2])
    ELSE Ok(vals)

\* --------------------------------------------------------- basic functions

\* itertools.product(*args): the leftmost argument varies slowest.
RECURSIVE Product(_)
Product(args) ==
    IF args = <<>> THEN << <<>> >>
    ELSE LET rest == Product(Tail(args))
             first == Head(args)
         IN  Flatten([i \in DOMAIN first |->
                        [j \in DOMAIN rest |-> <<first[i]>> \o rest[j]]])

IsInt(v) == Kind(v) = "int"

\* Concatenation and repetition of str and tuple operands are outside the
\* model: an application that would perform one ends "Unmodelled".
Arith(op, a, b) ==
    IF IsInt(a) /\ IsInt(b)
    THEN CASE op = "+" -> IntV(a[2] + b[2])
           [] op = "-" -> IntV(a[2] - b[2])
           [] op = "*" -> IntV(a[2] * b[2])
    ELSE IF \/ op \in {"+", "*"} /\ {Kind(a), Kind(b)} \subseteq {"str", "tup", "int"}
            \/ Kind(a) = "dict" /\ Kind(b) = "dict"
         THEN Error("Unmodelled")
         ELSE Error("TypeError")

\* operator.lt and its relatives: int, str and UUID operands are ordered.
Compare(op, a, b) ==
    LET ordered == /\ Kind(a) = Kind(b)
                   /\ Kind(a) \in {"int", "str", "uuid"}
        lt(x, y) == IF Kind(x) = "str" THEN StrLt(x[2], y[2]) ELSE x[2] < y[2]
    IN  IF ~ordered
        THEN IF Kind(a) = "tup" /\ Kind(b) = "tup"
             THEN Error("Unmodelled") ELSE Error("TypeError")
        ELSE CASE op = "<" -> Bool(lt(a, b))
               [] op = ">" -> Bool(lt(b, a))
               [] op = "<=" -> Bool(~lt(b, a))
               [] op = ">=" -> Bool(~lt(a, b))

ArithOps == {"+", "-", "*"}
CompareOps == {"<", "<=", ">", ">="}

\* The scalar function a lifted binary operator applies to one pair.
ScalarBinOp(op, a, b) ==
    CASE op \in ArithOps -> Arith(op, a, b)
      [] op \in CompareOps -> Compare(op, a, b)
      [] op = "=" -> Bool(a = b)
      [] op = "!=" -> Bool(a # b)

\* The scalar function a lifted unary operator applies to one value.
ScalarUnOp(op, a) ==
    CASE op = "NOT" -> Bool(~Truthy(a))
      [] op = "-" -> IF IsInt(a) THEN IntV(0 - a[2]) ELSE Error("TypeError")
      [] op = "+" -> IF IsInt(a) THEN a ELSE Error("TypeError")

\* lift(f)(*args) for a binary f.
lift2(op, x, y) ==
    LET prod == Product(<<x, y>>)
    IN  Collect([i \in DOMAIN prod |-> ScalarBinOp(op, prod[i][1], prod[i][2])])

\* lift(f)(*args) for a unary f.
lift1(op, x) == Collect([i \in DOMAIN x |-> ScalarUnOp(op, x[i])])

\* lift(get)(*args) of a tuple constructor.
lift_get(args) ==
    LET prod == Product(args) IN Ok([i \in DOMAIN prod |-> Tup(prod[i])])

\* lift(get)(*args) of a named tuple constructor: dict(zip(names, va)).
lift_get_named(names, args) ==
    LET prod == Product(args)
    IN  Ok([i \in DOMAIN prod |->
              Dict([j \in DOMAIN names |-> <<names[j], prod[i][j]>>])])

\* sum(xs): the fold of + from 0.
RECURSIVE py_sum(_, _)
py_sum(xs, acc) ==
    IF xs = <<>> THEN IntV(acc)
    ELSE IF IsInt(Head(xs)) THEN py_sum(Tail(xs), acc + Head(xs)[2])
    ELSE Error("TypeError")

\* min(xs) and max(xs): the scan that replaces the best value so far when
\* the next one compares smaller (greater).
RECURSIVE py_best(_, _, _)
py_best(op, xs, best) ==
    IF xs = <<>> THEN best
    ELSE With(Compare(op, Head(xs), best), LAMBDA c :
           IF IsError(c) THEN c
           ELSE py_best(op, Tail(xs), IF Truthy(c) THEN Head(xs) ELSE best))

py_min(xs) ==
    IF xs = <<>> THEN Error("ValueError") ELSE py_best("<", Tail(xs), Head(xs))

py_max(xs) ==
    IF xs = <<>> THEN Error("ValueError") ELSE py_best(">", Tail(xs), Head(xs))

\* The aggregate f that lift_set_of wraps, applied to the whole multiset.
Aggregate(f, m) ==
    CASE f = "count" -> IntV(Len(m))
      [] f = "sum" -> py_sum(m, 0)
      [] f = "min" -> py_min(m)
      [] f = "max" -> py_max(m)
      [] f = "all" -> Bool(\A i \in DOMAIN m : Truthy(m[i]))
      [] f = "any" -> Bool(\E i \in DOMAIN m : Truthy(m[i]))
      [] f = "EXISTS" -> Bool(m # <<>>)

lift_set_of(f, m) ==
    With(Aggregate(f, m), LAMBDA val :
      IF IsError(val) THEN Raise(val[2]) ELSE Ok(<<val>>))

opt_eq(x, y) ==
    IF x = <<>> \/ y = <<>> THEN Ok(<<Bool(Len(x) = Len(y))>>)
    ELSE lift2("=", x, y)

opt_ne(x, y) ==
    IF x = <<>> \/ y = <<>> THEN Ok(<<Bool(Len(x) # Len(y))>>)
    ELSE lift2("!=", x, y)

contains(es, s) ==
    Ok([i \in DOMAIN es |-> Bool(\E j \in DOMAIN s : s[j] = es[i])])

\* coalesce with its two results exchanged.
coalesce_exchanged(x, y) == Ok(IF x # <<>> THEN y ELSE x)

coalesce(x, y) == Ok(IF x # <<>> THEN x ELSE y)

distinct(x) == Ok(dedup(x))

union(x, y) == Ok(x \o y)

enumerate_(x) == Ok([i \in DOMAIN x |-> Tup(<<IntV(i - 1), x[i]>>)])

AggregateNames == {"count", "sum", "min", "max", "all", "any"}

\* BASIS_IMPLS[typ, op](*results): the lifted implementation applied to the
\* argument multisets; a missing key is a KeyError.
BASIS_IMPLS(typ, op, results) ==
    CASE typ = "binop" /\ op \in ArithOps \cup CompareOps \cup {"=", "!="} ->
             lift2(op, results[1], results[2])
      [] typ = "binop" /\ op = "?=" -> opt_eq(results[1], results[2])
      [] typ = "binop" /\ op = "?!=" -> opt_ne(results[1], results[2])
      [] typ = "binop" /\ op = "IN" -> contains(results[1], results[2])
      [] typ = "binop" /\ op = "??" -> coalesce(results[1], results[2])
      [] typ = "binop" /\ op = "UNION" -> union(results[1], results[2])
      [] typ = "unop" /\ op \in {"-", "+", "NOT"} -> lift1(op, results[1])
      [] typ = "unop" /\ op = "DISTINCT" -> distinct(results[1])
      [] typ = "func" /\ op = "enumerate" -> enumerate_(results[1])
      [] \/ typ = "unop" /\ op = "EXISTS"
         \/ typ = "func" /\ op \in AggregateNames -> lift_set_of(op, results[1])
      [] OTHER -> Raise("KeyError")

\* str.upper() over the operator names of the grammar.
upper(op) ==
    CASE op = "in" -> "IN"
      [] op = "union" -> "UNION"
      [] op = "exists" -> "EXISTS"
      [] op = "distinct" -> "DISTINCT"
      [] op = "not" -> "NOT"
      [] OTHER -> op

\* -------------------------------------------------------------- evaluation

EvalContext(query_input_list, input_tuple, aliases, db) ==
    [query_input_list |-> query_input_list, input_tuple |-> input_tuple,
     aliases |-> aliases, db |-> db]

\* replace(ctx, query_input_list=qil, input_tuple=row)
replace(ctx, qil, row) ==
    [ctx EXCEPT !.query_input_list = qil, !.input_tuple = row]

\* The rows `mine` of one iteration, followed by those of the iterations
\* after it, unless one of those raised.
Prepend(mine, rest) ==
    IF Failed(rest) THEN rest ELSE [rest EXCEPT !.v = mine \o @]

\* int(x) of a value; no str of the model is a numeral but "0" and "1".
py_int(v) ==
    CASE Kind(v) = "int" -> v
      [] Kind(v) = "str" /\ v[2] = "0" -> IntV(0)
      [] Kind(v) = "str" /\ v[2] = "1" -> IntV(1)
      [] Kind(v) = "str" -> Error("ValueError")
      [] OTHER -> Error("TypeError")

\* out[n:]
SliceFrom(out, n) ==
    LET start == IF n >= 0 THEN n ELSE IF Len(out) + n > 0 THEN Len(out) + n ELSE 0
    IN  SubSeq(out, start + 1, Len(out))

\* out[:n]
SliceTo(out, n) ==
    LET stop == IF n >= 0 THEN n ELSE IF Len(out) + n > 0 THEN Len(out) + n ELSE 0
    IN  SubSeq(out, 1, IF stop > Len(out) THEN Len(out) ELSE stop)

Reverse(s) == [i \in DOMAIN s |-> s[Len(s) + 1 - i]]

\* The sort key of a decorated row: (tag, value) or (tag,).  key1 < key2 as
\* Python compares the tuples: "lt", "ge" or the exception.
KeyLt(k1, k2) ==
    IF k1[1] # k2[1] THEN (IF k1[1] < k2[1] THEN "lt" ELSE "ge")
    ELSE IF Len(k1) = 1 \/ k1[2] = k2[2] THEN "ge"
    ELSE With(Compare("<", k1[2], k2[2]), LAMBDA c :
           IF IsError(c) THEN c[2] ELSE IF Truthy(c) THEN "lt" ELSE "ge")

\* Insertion of one decorated row behind every row that is not greater.
RECURSIVE insert_sorted(_, _)
insert_sorted(sorted, x) ==
    IF sorted = <<>> THEN <<x>>
    ELSE IF KeyLt(x[2], Last(sorted)[2]) = "lt"
         THEN Append(insert_sorted(Front(sorted), x), Last(sorted))
         ELSE Append(sorted, x)

RECURSIVE stable_sort(_, _)
stable_sort(new, sorted) ==
    IF new = <<>> THEN sorted
    ELSE stable_sort(Tail(new), insert_sorted(sorted, Head(new)))

\* list_sort that sorts ascending and reverses the outcome when asked for
\* the reverse order.
list_sort_reversing(new, reverse) ==
    With({c \in {KeyLt(new[i][2], new[j][2]) : i, j \in DOMAIN new}
             : c \notin {"lt", "ge"}}, LAMBDA bad :
      IF bad # {} THEN Raise(CHOOSE c \in bad : TRUE)
      ELSE With(stable_sort(new, <<>>),
                LAMBDA sorted : Ok(IF reverse THEN Reverse(sorted) ELSE sorted)))

\* new.sort(key=lambda x: x[1], reverse=reverse): a stable sort; reverse
\* reverses the list before and after, which keeps equal keys in order.  A
\* comparison of two unequal values that Python does not order raises.
list_sort(new, reverse) ==
    With({c \in {KeyLt(new[i][2], new[j][2]) : i, j \in DOMAIN new}
             : c \notin {"lt", "ge"}}, LAMBDA bad :
      IF bad # {} THEN Raise(CHOOSE c \in bad : TRUE)
      ELSE With(stable_sort(IF reverse THEN Reverse(new) ELSE new, <<>>),
                LAMBDA sorted : Ok(IF reverse THEN Reverse(sorted) ELSE sorted)))

\* nones_bigger decided by the placement alone.
nones_bigger_any_direction(sort) == sort.nones_order = "last"

nones_bigger(sort) ==
    \/ sort.direction = "ASC" /\ sort.nones_order = "last"
    \/ sort.direction = "DESC" /\ sort.nones_order = "first"

\* The functions of the evaluator call one another in a cycle (eval ->
\* eval_Select -> subquery_full -> eval), so they are declared ahead.
RECURSIVE eval(_, _)
RECURSIVE eval_path(_, _)
RECURSIVE eval_steps(_, _, _)
RECURSIVE build_column(_, _, _, _, _)
RECURSIVE build_input_tuples(_, _, _, _, _)
RECURSIVE eval_rows(_, _, _, _)
RECURSIVE subquery_full(_, _, _)
RECURSIVE subquery(_, _)
RECURSIVE eval_args(_, _, _, _)
RECURSIVE eval_func_or_op(_, _, _, _)
RECURSIVE eval_list(_, _)
RECURSIVE bind_aliases(_, _, _)
RECURSIVE filter_rows(_, _, _, _)
RECURSIVE eval_filter(_, _, _, _)
RECURSIVE decorate(_, _, _, _)
RECURSIVE eval_orderby(_, _, _, _, _)
RECURSIVE eval_offset(_, _, _)
RECURSIVE eval_limit(_, _, _)
RECURSIVE eval_Select(_, _)
RECURSIVE for_loop(_, _, _, _)
RECURSIVE eval_For(_, _)
RECURSIVE eval_Set(_, _)
RECURSIVE eval_Tuple(_, _)
RECURSIVE eval_NamedTuple(_, _)

get_links_of(db, id, key) ==
    IF HasRecord(db, id) THEN Ok(get_links(Record(db, id), key))
    ELSE Raise("KeyError")

eval_fwd_ptr(base, ptr, ctx) ==
    CASE Kind(base) = "tup" ->
             LET i == py_int(StrV(ptr[2]))
             IN  IF IsError(i) THEN Raise(i[2])
                 ELSE IF i[2] + 1 \in DOMAIN base[2] THEN Ok(<<base[2][i[2] + 1]>>)
                 ELSE Raise("IndexError")
      [] Kind(base) = "obj" -> get_links_of(ctx.db, base[2], ptr[2])
      [] Kind(base) = "dict" ->
             LET hit == {j \in DOMAIN base[2] : base[2][j][1] = ptr[2]}
             IN  IF hit = {} THEN Raise("KeyError")
                 ELSE Ok(<<base[2][CHOOSE j \in hit : TRUE][2]>>)
      [] OTHER -> Raise("TypeError")

eval_bwd_ptr(base, ptr, ctx) ==
    LET db == ctx.db
        hits == SelectSeq(db, LAMBDA obj :
                    \E j \in DOMAIN get_links(obj, ptr[2]) :
                        get_links(obj, ptr[2])[j] = base)
    IN  Ok([i \in DOMAIN hits |-> Obj(hits[i].id)])

eval_ptr(base, ptr, ctx) ==
    IF ptr[3] = ">" THEN eval_fwd_ptr(base, ptr, ctx)
    ELSE eval_bwd_ptr(base, ptr, ctx)

\* base["id"] is a mapping lookup: an Obj, a tuple or a scalar has none.
eval_intersect(base, ptr, ctx) ==
    IF Kind(base) # "dict" THEN Raise("TypeError")
    ELSE LET hit == {j \in DOMAIN base[2] : base[2][j][1] = "id"}
             id == base[2][CHOOSE j \in hit : TRUE][2]
         IN  IF hit = {} \/ ~HasRecord(ctx.db, id) THEN Raise("KeyError")
             ELSE Ok(IF Record(ctx.db, id).__type__ = StrV(ptr[2])
                     THEN <<base>> ELSE <<>>)

eval_objref(name, ctx) ==
    IF name \in DOMAIN ctx.aliases THEN Ok(ctx.aliases[name])
    ELSE LET hits == SelectSeq(ctx.db, LAMBDA obj : obj.__type__ = StrV(name))
         IN  Ok([i \in DOMAIN hits |-> Obj(hits[i].id)])

\* The loop of eval_path over the base values.
eval_steps(base, ptr, ctx) ==
    IF base = <<>> THEN Ok(<<>>)
    ELSE Then(IF ptr[1] = "IPtr" THEN eval_ptr(Head(base), ptr, ctx)
              ELSE eval_intersect(Head(base), ptr, ctx),
              LAMBDA v : Prepend(v, eval_steps(Tail(base), ptr, ctx)))

eval_path(path, ctx) ==
    IF \E i \in DOMAIN ctx.query_input_list : ctx.query_input_list[i] = path
    THEN LET i == CHOOSE n \in DOMAIN ctx.query_input_list :
                     /\ ctx.query_input_list[n] = path
                     /\ \A m \in 1..(n - 1) : ctx.query_input_list[m] # path
         IN  IF i \notin DOMAIN ctx.input_tuple THEN Raise("IndexError")
             ELSE IF ctx.input_tuple[i] # None THEN Ok(<<ctx.input_tuple[i]>>)
             ELSE Ok(<<>>)
    ELSE IF Len(path) = 1
    THEN CASE path[1][1] = "IORef" -> eval_objref(path[1][2], ctx)
           [] path[1][1] = "IExpr" -> eval(path[1][2], ctx)
           [] OTHER -> Raise("AssertionError")
    ELSE Then(eval_path(Front(path), ctx), LAMBDA base :
           IF Last(path)[1] \notin {"IPtr", "ITypeIntersection"}
           THEN Raise("AssertionError")
           ELSE Then(eval_steps(base, Last(path), ctx), LAMBDA out :
                  Ok(IF /\ base # <<>> /\ Kind(base[1]) = "obj"
                        /\ out # <<>> /\ Kind(out[1]) = "obj"
                     THEN dedup(out) ELSE out)))

\* build_column that fills the missing marker in for every empty column.
build_column_filling(data, in_path, new_qil, an, ctx) ==
    IF data = <<>> THEN Ok(<<>>)
    ELSE Then(eval_path(in_path, replace(ctx, new_qil, Head(data))),
              LAMBDA out :
                Prepend([i \in DOMAIN out |-> Append(Head(data), out[i])]
                        \o (IF out = <<>>
                            THEN <<Append(Head(data), None)>> ELSE <<>>),
                        build_column(Tail(data), in_path, new_qil, an, ctx)))

\* build_column that evaluates the path in the context of the call and not
\* in that of the row.
build_column_unbound(data, in_path, new_qil, an, ctx) ==
    IF data = <<>> THEN Ok(<<>>)
    ELSE Then(eval_path(in_path, ctx),
              LAMBDA out :
                Prepend([i \in DOMAIN out |-> Append(Head(data), out[i])]
                        \o (IF out = <<>> /\ always_optional(an, in_path)
                            THEN <<Append(Head(data), None)>> ELSE <<>>),
                        build_column(Tail(data), in_path, new_qil, an, ctx)))

\* The loop of build_input_tuples over the rows, for one column.
build_column(data, in_path, new_qil, an, ctx) ==
    IF data = <<>> THEN Ok(<<>>)
    ELSE Then(eval_path(in_path, replace(ctx, new_qil, Head(data))),
              LAMBDA out :
                Prepend([i \in DOMAIN out |-> Append(Head(data), out[i])]
                        \o (IF out = <<>> /\ always_optional(an, in_path)
                            THEN <<Append(Head(data), None)>> ELSE <<>>),
                        build_column(Tail(data), in_path, new_qil, an, ctx)))

\* build_input_tuples from column i on, given the rows built so far.
build_input_tuples(qil, i, data, an, ctx) ==
    IF i > Len(qil) THEN Ok(data)
    ELSE Then(build_column(data, qil[i],
                           ctx.query_input_list \o SubSeq(qil, 1, i - 1), an, ctx),
              LAMBDA col : build_input_tuples(qil, i + 1, col, an, ctx))

\* The loop of subquery_full that evaluates q once per input tuple.
eval_rows(q, new_qil, in_tuples, ctx) ==
    IF in_tuples = <<>> THEN Ok(<<>>)
    ELSE Then(eval(q, replace(ctx, new_qil, Head(in_tuples))),
              LAMBDA v :
                Prepend([i \in DOMAIN v |-> Append(Head(in_tuples), v[i])],
                        eval_rows(q, new_qil, Tail(in_tuples), ctx)))

\* subquery_full returns the pair (new query input list, rows).
subquery_full(q, extra_subqs, ctx) ==
    With(analyze_paths(q, extra_subqs), LAMBDA an :
      With(make_query_input_list(an.direct_paths, an.subquery_paths,
                                 ctx.query_input_list), LAMBDA qil :
        Then(build_input_tuples(qil, 1, <<ctx.input_tuple>>, an, ctx),
             LAMBDA in_tuples :
               Then(eval_rows(q, ctx.query_input_list \o qil, in_tuples, ctx),
                    LAMBDA out : Ok(<<ctx.query_input_list \o qil, out>>)))))

LastColumn(rows) == [i \in DOMAIN rows |-> Last(rows[i])]

subquery(q, ctx) ==
    Then(subquery_full(q, <<>>, ctx), LAMBDA full : Ok(LastColumn(full[2])))

\* eval_args with a SET OF argument evaluated outside the rows of the
\* expression it occurs in.
eval_args_independent(specs, args, i, ctx) ==
    IF i > Len(args) THEN Ok(<<>>)
    ELSE IF specs # <<>> /\ i \notin DOMAIN specs THEN Raise("IndexError")
    ELSE Then(IF SpecIs(specs, i, SET_OF)
              THEN subquery(args[i], replace(ctx, <<>>, <<>>))
              ELSE eval(args[i], ctx),
              LAMBDA v : Prepend(<<v>>, eval_args(specs, args, i + 1, ctx)))

\* The arguments of a builtin in order: a SET OF one as a subquery.
eval_args(specs, args, i, ctx) ==
    IF i > Len(args) THEN Ok(<<>>)
    ELSE IF specs # <<>> /\ i \notin DOMAIN specs THEN Raise("IndexError")
    ELSE Then(IF SpecIs(specs, i, SET_OF) THEN subquery(args[i], ctx)
              ELSE eval(args[i], ctx),
              LAMBDA v : Prepend(<<v>>, eval_args(specs, args, i + 1, ctx)))

\* The argument multisets passed in OPTIONAL positions by one call.
OptionalCalls(op, specs, results) ==
    {<<op, i, Len(results[i])>> : i \in {j \in DOMAIN results :
                                            SpecIs(specs, j, OPTIONAL)}}

eval_func_or_op(op, args, typ, ctx) ==
    With(arg_specs_of(op), LAMBDA arg_specs :
      Then(eval_args(arg_specs, args, 1, ctx), LAMBDA results :
        [BASIS_IMPLS(typ, op, results)
           EXCEPT !.calls = @ \cup OptionalCalls(op, arg_specs, results)]))

\* eval_BinOp, eval_UnaryOp and eval_Call: the operator, its arguments and
\* the kind of builtin each hands to eval_func_or_op.
func_or_op_of(node) ==
    CASE node.k = "BinOp" ->
             [op |-> upper(node.op), args |-> <<node.left, node.right>>,
              typ |-> "binop"]
      [] node.k = "UnaryOp" ->
             [op |-> upper(node.op), args |-> <<node.operand>>, typ |-> "unop"]
      [] node.k = "FunctionCall" ->
             [op |-> node.func, args |-> node.args, typ |-> "func"]

\* [eval(arg, ctx) for arg in elements]
eval_list(elements, ctx) ==
    IF elements = <<>> THEN Ok(<<>>)
    ELSE Then(eval(Head(elements), ctx),
              LAMBDA v : Prepend(<<v>>, eval_list(Tail(elements), ctx)))

\* The aliases of a SELECT, each evaluated in the context of the ones before.
bind_aliases(aliases, i, ctx) ==
    IF i > Len(aliases) THEN Ok(ctx.aliases)
    ELSE Then(subquery(aliases[i].expr, ctx), LAMBDA v :
           bind_aliases(aliases, i + 1,
                        [ctx EXCEPT !.aliases = (aliases[i].alias :> v) @@ @]))

\* The loop of eval_filter over the rows.
filter_rows(where, qil, out, ctx) ==
    IF out = <<>> THEN Ok(<<>>)
    ELSE Then(subquery(where, replace(ctx, qil, Head(out))), LAMBDA v :
           Prepend(IF \E i \in DOMAIN v : Truthy(v[i])
                   THEN <<Head(out)>> ELSE <<>>,
                   filter_rows(where, qil, Tail(out), ctx)))

eval_filter(where, qil, out, ctx) ==
    IF where = NoneNode THEN Ok(out) ELSE filter_rows(where, qil, out, ctx)

\* The key eval_orderby decorates a row with: (tag, value) or (tag,).
sort_key(sort, vals) ==
    LET nb == IF nones_bigger(sort) THEN 1 ELSE 0
    IN  IF vals # <<>> THEN <<1 - nb, vals[1]>> ELSE <<nb>>

\* The decorate loop of eval_orderby: pairs (row, key).
decorate(sort, qil, out, ctx) ==
    IF out = <<>> THEN Ok(<<>>)
    ELSE Then(subquery(sort.path, replace(ctx, qil, Head(out))), LAMBDA vals :
           IF Len(vals) > 1 THEN Raise("AssertionError")
           ELSE Prepend(<<<<Head(out), sort_key(sort, vals)>>>>,
                        decorate(sort, qil, Tail(out), ctx)))

\* eval_orderby from sort specifier i down to the first.
eval_orderby(orderby, i, qil, out, ctx) ==
    IF i < 1 THEN Ok(out)
    ELSE Then(decorate(orderby[i], qil, out, ctx), LAMBDA new :
           Then(list_sort(new, orderby[i].direction = "DESC"), LAMBDA sorted :
             eval_orderby(orderby, i - 1, qil,
                          [j \in DOMAIN sorted |-> sorted[j][1]], ctx)))

\* eval_offset without its assertion: the first value is the offset.
eval_offset_first(offset, out, ctx) ==
    IF offset = NoneNode THEN Ok(out)
    ELSE Then(subquery(offset, ctx), LAMBDA res :
           IF res = <<>> THEN Raise("AssertionError")
           ELSE IF IsError(py_int(res[1])) THEN Raise(py_int(res[1])[2])
           ELSE Ok(SliceFrom(out, py_int(res[1])[2])))

eval_offset(offset, out, ctx) ==
    IF offset = NoneNode THEN Ok(out)
    ELSE Then(subquery(offset, ctx), LAMBDA res :
           IF Len(res) # 1 THEN Raise("AssertionError")
           ELSE IF IsError(py_int(res[1])) THEN Raise(py_int(res[1])[2])
           ELSE Ok(SliceFrom(out, py_int(res[1])[2])))

eval_limit(limit, out, ctx) ==
    IF limit = NoneNode THEN Ok(out)
    ELSE Then(subquery(limit, ctx), LAMBDA res :
           IF Len(res) # 1 THEN Raise("AssertionError")
           ELSE IF IsError(py_int(res[1])) THEN Raise(py_int(res[1])[2])
           ELSE Ok(SliceTo(out, py_int(res[1])[2])))

\* eval_Select that applies LIMIT before OFFSET.
eval_Select_limit_first(node, ctx0) ==
    Then(bind_aliases(node.aliases, 1, ctx0), LAMBDA new :
      LET ctx == [ctx0 EXCEPT !.aliases = new]
          subqs == <<node.where>> \o
                   [i \in DOMAIN node.orderby |-> node.orderby[i].path]
          aliased == node.result_alias # ""
      IN  Then(subquery_full(node.result, subqs, ctx), LAMBDA full :
            LET new_qil == full[1] \o <<<<IPartial>>>>
                           \o (IF aliased THEN <<<<IORef(node.result_alias)>>>>
                               ELSE <<>>)
                out == IF aliased
                       THEN [i \in DOMAIN full[2] |->
                               Append(full[2][i], Last(full[2][i]))]
                       ELSE full[2]
            IN  Then(eval_filter(node.where, new_qil, out, ctx),
                     LAMBDA filtered :
                  Then(eval_orderby(node.orderby, Len(node.orderby), new_qil,
                                    filtered, ctx), LAMBDA ordered :
                    Then(eval_limit(node.limit, ordered, ctx),
                         LAMBDA limited :
                      Then(eval_offset(node.offset, limited, ctx),
                           LAMBDA skipped : Ok(LastColumn(skipped))))))))

eval_Select(node, ctx0) ==
    Then(bind_aliases(node.aliases, 1, ctx0), LAMBDA new :
      LET ctx == [ctx0 EXCEPT !.aliases = new]
          subqs == <<node.where>> \o
                   [i \in DOMAIN node.orderby |-> node.orderby[i].path]
          aliased == node.result_alias # ""
      IN  Then(subquery_full(node.result, subqs, ctx), LAMBDA full :
            LET new_qil == full[1] \o <<<<IPartial>>>>
                           \o (IF aliased THEN <<<<IORef(node.result_alias)>>>>
                               ELSE <<>>)
                out == IF aliased
                       THEN [i \in DOMAIN full[2] |->
                               Append(full[2][i], Last(full[2][i]))]
                       ELSE full[2]
            IN  Then(eval_filter(node.where, new_qil, out, ctx),
                     LAMBDA filtered :
                  Then(eval_orderby(node.orderby, Len(node.orderby), new_qil,
                                    filtered, ctx), LAMBDA ordered :
                    Then(eval_offset(node.offset, ordered, ctx),
                         LAMBDA skipped :
                      Then(eval_limit(node.limit, skipped, ctx),
                           LAMBDA limited : Ok(LastColumn(limited))))))))

\* The loop of eval_For over the iterator's values.
for_loop(node, qil, iter_vals, ctx) ==
    IF iter_vals = <<>> THEN Ok(<<>>)
    ELSE Then(subquery(node.result,
                       replace(ctx, qil,
                               Append(ctx.input_tuple, Head(iter_vals)))),
              LAMBDA v : Prepend(v, for_loop(node, qil, Tail(iter_vals), ctx)))

eval_For(node, ctx) ==
    Then(subquery(node.iterator, ctx), LAMBDA iter_vals :
      for_loop(node,
               Append(ctx.query_input_list, <<IORef(node.iterator_alias)>>),
               iter_vals, ctx))

eval_Set(node, ctx) ==
    Then(eval_list(node.elements, ctx), LAMBDA v : Ok(Flatten(v)))

eval_Tuple(node, ctx) ==
    Then(eval_list(node.elements, ctx), LAMBDA args : lift_get(args))

eval_NamedTuple(node, ctx) ==
    Then(eval_list([i \in DOMAIN node.elements |-> node.elements[i].val], ctx),
         LAMBDA args :
           lift_get_named([i \in DOMAIN node.elements |-> node.elements[i].name],
                          args))

eval(node, ctx) ==
    CASE node.k = "SelectQuery" -> eval_Select(node, ctx)
      [] node.k = "ForQuery" -> eval_For(node, ctx)
      [] node.k \in {"BinOp", "UnaryOp", "FunctionCall"} ->
             eval_func_or_op(func_or_op_of(node).op, func_or_op_of(node).args,
                             func_or_op_of(node).typ, ctx)
      [] node.k = "StringConstant" -> Ok(<<StrV(node.value)>>)
      [] node.k = "IntegerConstant" -> Ok(<<IntV(node.value)>>)
      [] node.k = "Set" -> eval_Set(node, ctx)
      [] node.k = "Tuple" -> eval_Tuple(node, ctx)
      [] node.k = "NamedTuple" -> eval_NamedTuple(node, ctx)
      [] node.k = "Path" -> eval_path(simplify_path(node), ctx)
      [] OTHER -> Raise("NotImplementedError")

RECURSIVE clean_data(_)
clean_data(x) ==
    CASE Kind(x) = "obj" -> Dict(<<<<"id", x[2]>>>>)
      [] Kind(x) = "dict" ->
             Dict([i \in DOMAIN x[2] |-> <<x[2][i][1], clean_data(x[2][i][2])>>])
      [] Kind(x) = "tup" -> Tup([i \in DOMAIN x[2] |-> clean_data(x[2][i])])
      [] OTHER -> x

go(q, db) ==
    Then(subquery(q, EvalContext(<<>>, <<>>, <<>>, db)), LAMBDA out :
      Ok([i \in DOMAIN out |-> clean_data(out[i])]))

\* ------------------------------------------------------- checked databases

\* A database shaped as DB1: three Person records with the given names,
\* tags ("" for no tag attribute) and notes (Absent for no notes attribute),
\* and the three Note records of DB1.
Absent == <<-1>>

PersonRecord(n, name, tag, notes) ==
    [id |-> bsid(n), __type__ |-> StrV(PersonT), name |-> StrV(name)]
    @@ (IF tag = "" THEN <<>> ELSE [tag |-> StrV(tag)])
    @@ (IF notes = Absent THEN <<>>
        ELSE [notes |-> List([i \in DOMAIN notes |-> bslink(notes[i])])])

MkDB(names, tags, notes) ==
    mk_db([i \in 1..3 |-> PersonRecord(15 + i, names[i], tags[i], notes[i])]
          \o SubSeq(DB1, 4, 6))

DB1Names == <<"Phil Emarg", "Madeline Hatch", "Emmanuel Villip">>

NameChoices == {DB1Names, <<"a", "b", "a">>}

TagValues == {<<"a", "b", "c", "d">>[i] : i \in 1..NumTags}

TagChoices == [1..3 -> {""} \cup TagValues]

DB1Notes == <<<<32, 33>>, <<33>>, Absent>>

NoteChoices ==
    {DB1Notes,
     <<Absent, <<>>, Absent>>,
     <<<<33>>, <<33, 32, 33>>, <<34>>>>}

Databases ==
    {MkDB(n, t, l) : n \in NameChoices, t \in TagChoices, l \in NoteChoices}

\* --------------------------------------------------------- checked queries

Lit(s) == SetNode([i \in DOMAIN s |-> IntegerConstant(s[i])])

\* The sequences over 1..MaxLit of length at most 2, and 1, ..., MaxLit.
LitSeqs ==
    {<<>>} \cup {<<a>> : a \in 1..MaxLit}
    \cup {<<a, b>> : a, b \in 1..MaxLit}
    \cup {[i \in 1..MaxLit |-> i]}

SmallLits == {<<>>, <<1>>, <<2, 1>>, [i \in 1..MaxLit |-> i]}

Fwd(name) == Ptr(name, ">")
Bwd(name) == Ptr(name, "<")
Person(steps) == Path(<<ObjectRef(PersonT)>> \o steps)
Note(steps) == Path(<<ObjectRef(NoteT)>> \o steps)
Var(x) == Path(<<ObjectRef(x)>>)
Count(e) == FunctionCall("count", <<e>>)

\* Paths that start at an object-set name and follow pointers only.
PointerPaths ==
    {Person(<<>>), Person(<<Fwd("name")>>), Person(<<Fwd("tag")>>),
     Person(<<Fwd("notes")>>), Person(<<Fwd("notes"), Fwd("name")>>),
     Person(<<Fwd("notes"), Fwd("note")>>), Note(<<>>),
     Note(<<Fwd("name")>>), Note(<<Bwd("notes")>>)}

\* Paths with a type intersection step, applied to object references.
IntersectPaths ==
    {Person(<<TypeIntersection(PersonT)>>), Person(<<TypeIntersection(NoteT)>>),
     Person(<<Fwd("notes"), TypeIntersection(NoteT)>>)}

\* (id := Person.id)[IS T]: a type intersection applied to a named tuple.
NamedIntersectPaths ==
    {Path(<<NamedTuple(<<NamedTupleElement("id", Person(<<Fwd("id")>>))>>),
            TypeIntersection(t)>>) : t \in {PersonT, NoteT}}

ObjectPaths == PointerPaths \cup IntersectPaths

PathQueries == {Select(p) : p \in ObjectPaths \cup NamedIntersectPaths}

PairQueries == {Select(TupleNode(<<p, p>>)) : p \in ObjectPaths}

CountQueries == {Select(Count(p)) : p \in ObjectPaths}

CountPairQueries == {Select(TupleNode(<<p, Count(p)>>)) : p \in ObjectPaths}

\* The operands of the builtins with an OPTIONAL position.
OptPaths == {Person(<<Fwd("tag")>>), Person(<<Fwd("name")>>), Note(<<Fwd("note")>>)}

LitOptQueries ==
    {Select(BinOp(Lit(x), op, Lit(y))) :
        x \in SmallLits, y \in SmallLits, op \in {"??", "?=", "?!="}}

PathOptQueries ==
    {Select(BinOp(x, op, y)) :
        x \in OptPaths \cup {Lit(<<>>), Lit(<<1>>)},
        y \in OptPaths \cup {Lit(<<>>), Lit(<<1>>)},
        op \in {"??", "?="}}
    \ LitOptQueries

LitAggregateQueries ==
    {Select(FunctionCall(f, <<Lit(s)>>)) : f \in AggregateNames, s \in LitSeqs}

PathAggregateQueries ==
    {Select(FunctionCall(f, <<p>>)) :
        f \in AggregateNames \ {"count"},
        p \in {Person(<<Fwd("tag")>>), Person(<<Fwd("notes")>>)}}

Directions == {"ASC", "DESC"}
NonesOrders == {"first", "last"}
SortPaths == {PartialPath(<<Fwd("tag")>>), PartialPath(<<Fwd("name")>>)}
SortExprs ==
    {SortExpr(p, d, n) : p \in SortPaths, d \in Directions, n \in NonesOrders}

OrderBy(result, orderby) ==
    SelectQuery(<<>>, result, "", NoneNode, orderby, NoneNode, NoneNode)

\* SELECT Person ORDER BY one or two sort specifiers.
SortQueries ==
    {OrderBy(Person(<<>>), <<s>>) : s \in SortExprs}
    \cup {OrderBy(Person(<<>>), <<s1, s2>>) :
            s1 \in {s \in SortExprs : s.path = PartialPath(<<Fwd("tag")>>)},
            s2 \in {s \in SortExprs : s.path = PartialPath(<<Fwd("name")>>)}}

\* FOR x IN I UNION R.
ForResults ==
    {Var("x"), BinOp(Var("x"), "*", Var("x")), TupleNode(<<Var("x"), Var("x")>>),
     Count(Var("x")), BinOp(Var("x"), "+", Lit(<<1, 2>>)),
     ForQuery(Lit(<<1, 2>>), "y", BinOp(Var("x"), "*", Var("y"))),
     ForQuery(Lit(<<2, 3>>), "x", Var("x")),
     ForQuery(BinOp(Var("x"), "+", Lit(<<0, 1>>)), "x", Var("x"))}

ForQueries == {ForQuery(Lit(s), "x", r) : s \in LitSeqs, r \in ForResults}

\* FOR x IN Person.name UNION R.
ForPathQueries ==
    {ForQuery(Person(<<Fwd("name")>>), "x", r) :
        r \in {Var("x"), TupleNode(<<Var("x"), Var("x")>>), Count(Var("x"))}}

\* SELECT Person FILTER w ORDER BY s OFFSET n LIMIT m, each clause optional.
Exists(e) == UnaryOp("EXISTS", e)

Filters == {NoneNode, Exists(PartialPath(<<Fwd("tag")>>))}

Orders ==
    {<<>>, <<SortExpr(PartialPath(<<Fwd("name")>>), "ASC", "last")>>,
     <<SortExpr(PartialPath(<<Fwd("notes")>>), "ASC", "last")>>}

\* No clause, one integer of 0..MaxLit, or the two-element set {1, 2}.
Counts ==
    {NoneNode} \cup {IntegerConstant(n) : n \in 0..MaxLit} \cup {Lit(<<1, 2>>)}

ClauseQueries ==
    {SelectQuery(<<>>, Person(<<>>), "", w, s, n, m) :
        w \in Filters, s \in Orders, n \in Counts, m \in Counts}

\* SELECT T FILTER .name = c, alone and as the operand of EXISTS in the
\* FILTER of SELECT Person.
NameConstants == {"boxing", "a", DB1Names[1]}

NameIs(c) == BinOp(PartialPath(<<Fwd("name")>>), "=", StringConstant(c))

Filter(result, where) ==
    SelectQuery(<<>>, result, "", where, <<>>, NoneNode, NoneNode)

FlatPartialQueries ==
    {Filter(r, NameIs(c)) : r \in {Person(<<>>), Note(<<>>)}, c \in NameConstants}

NestedPartialQueries ==
    {Filter(Person(<<>>), Exists(Filter(Note(<<>>), NameIs(c)))) :
        c \in NameConstants}

\* SELECT (a, b) where b has Person.tag under an OPTIONAL position and a is
\* a path from Person outside any.
MixedOptQueries ==
    {Select(TupleNode(<<a, b>>)) :
        a \in {Person(<<Fwd("name")>>), Person(<<Fwd("tag")>>),
               Person(<<Fwd("notes")>>)},
        b \in {BinOp(Person(<<Fwd("tag")>>), "??", Lit(<<1>>)),
               BinOp(Person(<<Fwd("notes"), Fwd("name")>>), "?=",
                     Person(<<Fwd("tag")>>))}}

\* SELECT (a, b) over paths from Person that share a prefix, b a path or the
\* count of one.
PrefixQueries ==
    {Select(TupleNode(<<a, b>>)) :
        a \in {Person(<<Fwd("name")>>), Person(<<Fwd("notes")>>),
               Person(<<Fwd("notes"), Fwd("name")>>)},
        b \in {Person(<<Fwd("tag")>>), Person(<<Fwd("notes"), Fwd("note")>>),
               Count(Person(<<Fwd("notes")>>)),
               Count(Person(<<Fwd("notes"), Fwd("name")>>))}}

\* The queries that read the database, and those that do not.
DatabaseQueries ==
    PathQueries \cup PairQueries \cup CountQueries \cup CountPairQueries
    \cup PathOptQueries \cup PathAggregateQueries \cup SortQueries
    \cup ForPathQueries \cup ClauseQueries \cup FlatPartialQueries
    \cup NestedPartialQueries \cup MixedOptQueries \cup PrefixQueries

LiteralQueries == LitOptQueries \cup LitAggregateQueries \cup ForQueries

\* ----------------------------------------------------------- state machine

VARIABLES
    db,             \* the database handed to go
    q,              \* the parsed query handed to go
    pc,             \* "ready" before the call in progress, "done" after it
    res,            \* the outcome of go(q, db)
    direct_refs,    \* make_query_input_list: the direct paths
    subquery_refs,  \* make_query_input_list: the paths inside subqueries
    old,            \* make_query_input_list: the enclosing query input list
    qil,            \* make_query_input_list: the list returned
    xact,           \* Session.xact: the transaction objects, oldest first
    backend,        \* the calls received by the backend's transaction objects
    called          \* the last call made on the Session

refs == <<direct_refs, subquery_refs, old, qil>>

session == <<xact, backend, called>>

vars == <<db, q, pc, res, refs, session>>

\* No call of make_query_input_list from outside the evaluator.
NoRefs ==
    direct_refs = <<>> /\ subquery_refs = <<>> /\ old = <<>> /\ qil = <<>>

\* What a call on the Session leaves in called: the method, the list xact
\* and the number of backend calls before it, and the exception it raised.
Call(method, raised) ==
    [method |-> method, xact |-> xact, made |-> Len(backend), raised |-> raised]

\* Session.__init__: self.xact = [].
NewSession ==
    xact = <<>> /\ backend = <<>> /\ called = Call("__init__", "")

Init ==
    /\ \/ q \in DatabaseQueries /\ db \in Databases
       \/ q \in LiteralQueries /\ db = DB1
    /\ pc = "ready"
    /\ res = Ok(<<>>)
    /\ NoRefs
    /\ NewSession

\* main / repl: debug.dump(go(q, db)).
Go ==
    /\ pc = "ready"
    /\ res' = go(q, db)
    /\ pc' = "done"
    /\ UNCHANGED <<db, q, refs, session>>

Next == Go

Spec == Init /\ [][Next]_vars

\* ------------------------------------- make_query_input_list on its own

\* The paths the lists are drawn from.
PathChoices ==
    {<<IORef(PersonT)>>,
     <<IORef(PersonT), IPtr("notes", ">")>>,
     <<IORef(PersonT), IPtr("name", ">")>>,
     <<IORef(PersonT), IPtr("notes", ">"), IPtr("name", ">")>>,
     <<IORef(NoteT)>>,
     <<IORef(NoteT), IPtr("name", ">")>>,
     <<IPartial>>,
     <<IPartial, IPtr("name", ">")>>}

\* The lists of at most n paths.
PathLists(n) == UNION {[1..k -> PathChoices] : k \in 0..n}

RefsInit ==
    /\ direct_refs \in PathLists(MaxRefs)
    /\ subquery_refs \in PathLists(1)
    /\ old \in PathLists(1)
    /\ qil = <<>>
    /\ pc = "ready"
    /\ db = DB1 /\ q = NoneNode /\ res = Ok(<<>>)
    /\ NewSession

MakeQueryInputList ==
    /\ pc = "ready"
    /\ qil' = make_query_input_list(direct_refs, subquery_refs, old)
    /\ pc' = "done"
    /\ UNCHANGED <<db, q, res, direct_refs, subquery_refs, old, session>>

RefsNext == MakeQueryInputList

RefsSpec == RefsInit /\ [][RefsNext]_vars

\* ---------------------------------------------------------- pgsql Session

\* The transaction objects are numbered in the order connection.xact() makes
\* them; backend holds <<method, n>> for each call of begin, commit or
\* rollback on object n. The methods of the base class, called first by every
\* method of Session, leave xact alone.
Begun == {i \in DOMAIN backend : backend[i][1] = "begin"}

\* _new_transaction: xact = self.connection.xact(); xact.begin().
\* The number of the object made.
new_transaction == Cardinality(Begun) + 1

SessionInit ==
    /\ NewSession
    /\ NoRefs
    /\ pc = "ready"
    /\ db = DB1 /\ q = NoneNode /\ res = Ok(<<>>)

\* begin: self.xact.append(self._new_transaction()).
Begin ==
    /\ Cardinality(Begun) < MaxXacts
    /\ backend' = Append(backend, <<"begin", new_transaction>>)
    /\ xact' = Append(xact, new_transaction)
    /\ called' = Call("begin", "")
    /\ UNCHANGED <<db, q, pc, res, refs>>

\* commit that takes the oldest transaction: self.xact.pop(0).
Commit_oldest ==
    /\ IF xact = <<>>
       THEN /\ called' = Call("commit", "IndexError")
            /\ UNCHANGED <<xact, backend>>
       ELSE /\ xact' = Tail(xact)
            /\ backend' = Append(backend, <<"commit", Head(xact)>>)
            /\ called' = Call("commit", "")
    /\ UNCHANGED <<db, q, pc, res, refs>>

\* commit: xact = self.xact.pop(); xact.commit(). list.pop raises IndexError
\* on an empty list.
Commit ==
    /\ IF xact = <<>>
       THEN /\ called' = Call("commit", "IndexError")
            /\ UNCHANGED <<xact, backend>>
       ELSE /\ xact' = Front(xact)
            /\ backend' = Append(backend, <<"commit", Last(xact)>>)
            /\ called' = Call("commit", "")
    /\ UNCHANGED <<db, q, pc, res, refs>>

\* rollback: if self.xact: xact = self.xact.pop(); xact.rollback().
Rollback ==
    /\ IF xact = <<>>
       THEN UNCHANGED <<xact, backend>>
       ELSE /\ xact' = Front(xact)
            /\ backend' = Append(backend, <<"rollback", Last(xact)>>)
    /\ called' = Call("rollback", "")
    /\ UNCHANGED <<db, q, pc, res, refs>>

\* rollback_all: while self.xact: self.xact.pop().rollback().
RollbackAll ==
    /\ xact' = <<>>
    /\ backend' = backend \o [i \in DOMAIN xact |->
                                <<"rollback", xact[Len(xact) + 1 - i]>>]
    /\ called' = Call("rollback_all", "")
    /\ UNCHANGED <<db, q, pc, res, refs>>

SessionNext == Begin \/ Commit \/ Rollback \/ RollbackAll

SessionSpec == SessionInit /\ [][SessionNext]_vars

\* ------------------------------------------------------------------ claims

Done == pc = "done"

Pairs(m) == [i \in DOMAIN m |-> Tup(<<m[i], m[i]>>)]

\* C1. Correlation: for every database and every path p that starts at an
\* object-set name, SELECT (p, p) returns one pair (v, v) per element v of
\* the multiset of SELECT p, in its order: |p| elements and not |p| * |p|.
\* When the evaluation of p raises, that of (p, p) raises the same.
C1_Correlation ==
    Done /\ q \in PairQueries =>
        LET single == go(Select(q.result.elements[1]), db)
        IN  /\ res.err = single.err
            /\ res.v = Pairs(single.v)

\* SELECT (Person.name, Person.name) on DB1 returned three pairs.
C1_Witness ==
    /\ Done
    /\ db = DB1
    /\ q = Select(TupleNode(<<Person(<<Fwd("name")>>), Person(<<Fwd("name")>>)>>))
    /\ res.err = ""
    /\ Len(res.v) = 3

\* The outcome of SELECT e on the database of the state.
ResultOf(e) == go(Select(e), db)

\* C2. Subquery correlation: when a path p occurs both directly in an
\* expression and inside a SET OF argument of that expression, as in
\* (p, count(p)), p is bound once per outer row and the SET OF argument reads
\* the single value bound in that row: SELECT (p, count(p)) returns one pair
\* (v, 1) per element v of the multiset of p, and raises when p raises.
C2_SetOfArgumentIsCorrelated ==
    Done /\ q \in CountPairQueries =>
        LET single == ResultOf(q.result.elements[1])
        IN  /\ res.err = single.err
            /\ res.v = [i \in DOMAIN single.v |-> Tup(<<single.v[i], IntV(1)>>)]

\* SELECT (Person.name, count(Person.name)) on DB1 returned three pairs, each
\* with the count 1.
C2_Witness ==
    /\ Done
    /\ db = DB1
    /\ q = Select(TupleNode(<<Person(<<Fwd("name")>>),
                              Count(Person(<<Fwd("name")>>))>>))
    /\ res.err = ""
    /\ Len(res.v) = 3
    /\ \A i \in DOMAIN res.v : res.v[i][2][2] = IntV(1)

\* C2 as the specification states it: in every row of SELECT (p, count(p))
\* the SET OF argument counts the full multiset of p.
C2_SetOfArgumentIsIndependent ==
    Done /\ q \in CountPairQueries /\ res.err = "" =>
        \A i \in DOMAIN res.v :
            res.v[i][2][2] = IntV(Len(ResultOf(q.result.elements[1]).v))

\* C3. Every call of the implementation of a builtin with an OPTIONAL
\* argument position (??, ?=, ?!=) is passed a multiset of zero or one
\* element in that position.
C3_OptionalArgumentAtMostOne ==
    Done => \A c \in res.calls : c[3] <= 1

\* C4. Set-of lift cardinality: for every aggregate f among count, sum, min,
\* max, all, any and every multiset m of integers, the empty one included,
\* SELECT f(m) returns a multiset of exactly one element.
C4_AggregateReturnsOne ==
    Done /\ q \in LitAggregateQueries => res.err = "" /\ Len(res.v) = 1

CountPersonNotes == Select(Count(Person(<<Fwd("notes")>>)))

\* C5. On DB1, SELECT count(Person.notes) through go returns [2]: the notes
\* linked from any Person, each once (boxing, unboxing).
C5_CountPersonNotesIsTwo ==
    Done /\ db = DB1 /\ q = CountPersonNotes =>
        res.err = "" /\ res.v = <<IntV(2)>>

\* go has returned for SELECT count(Person.notes) on DB1, where Phil links
\* boxing and unboxing, Madeline unboxing, Emmanuel nothing.
C5_Witness ==
    /\ Done
    /\ db = DB1
    /\ q = CountPersonNotes
    /\ get_links(db[1], "notes") = <<bslink(32), bslink(33)>>
    /\ get_links(db[2], "notes") = <<bslink(33)>>
    /\ get_links(db[3], "notes") = <<>>
    /\ Len(res.v) = 1

\* C5 as the specification states it: the query returns [3].
C5_CountPersonNotesIsThree ==
    Done /\ db = DB1 /\ q = CountPersonNotes =>
        res.err = "" /\ res.v = <<IntV(3)>>

\* A query x ?? y, and whether x and y are paths that start at the same
\* object-set name.
IsCoalesce(e) == e.result.k = "BinOp" /\ e.result.op = "??"

SharePrefix(x, y) ==
    /\ x.k = "Path" /\ y.k = "Path"
    /\ x.steps[1] = y.steps[1]

\* What SELECT Person.tag ?? Person.name returns when the coalescing is done
\* per Person: the tag of each Person that has one, the name of each other.
TagOrName ==
    [i \in 1..3 |-> IF "tag" \in DOMAIN db[i] THEN db[i].tag ELSE db[i].name]

\* C6. Coalesce law: when x and y are set literals or paths that do not
\* start at the same object-set name, SELECT x ?? y returns the result of x
\* when that is non-empty and the result of y otherwise.  When x and y share
\* a prefix the coalescing is done once per binding of the prefix:
\* SELECT Person.tag ?? Person.name returns, per Person, its tag when it has
\* one and its name otherwise.
C6_CoalesceLaw ==
    Done /\ IsCoalesce(q) =>
        LET x == q.result.left
            y == q.result.right
        IN  /\ ~SharePrefix(x, y) =>
                  /\ res.err = ""
                  /\ res.v = IF ResultOf(x).v # <<>> THEN ResultOf(x).v
                             ELSE ResultOf(y).v
            /\ x = Person(<<Fwd("tag")>>) /\ y = Person(<<Fwd("name")>>) =>
                  res.err = "" /\ res.v = TagOrName

\* SELECT Person.tag ?? Note.note on a database where some Person has a tag
\* returned the tags.
C6_Witness ==
    /\ Done
    /\ q = Select(BinOp(Person(<<Fwd("tag")>>), "??", Note(<<Fwd("note")>>)))
    /\ \E i \in 1..3 : "tag" \in DOMAIN db[i]
    /\ res.v = ResultOf(Person(<<Fwd("tag")>>)).v
    /\ res.v # <<>>

\* C6 as the specification states it: the law for every x and y, paths that
\* share a prefix included.
C6_CoalesceLawEverywhere ==
    Done /\ IsCoalesce(q) =>
        res.v = IF ResultOf(q.result.left).v # <<>>
                THEN ResultOf(q.result.left).v
                ELSE ResultOf(q.result.right).v

\* The Person record a row of SELECT Person stands for, as its index in the
\* database, and the index of the record at each place of the result.
RowIndex(row) == CHOOSE i \in 1..3 : db[i].id = row[2][1][2]

Places == [a \in DOMAIN res.v |-> RowIndex(res.v[a])]

\* What the path of a sort entry denotes on Person record i: no value or one.
SortValue(i, sort) == get_links(db[i], sort.path.steps[1].ptr)

\* Record i belongs strictly before record j by one sort entry.
Before(i, j, sort) ==
    LET a == SortValue(i, sort)
        b == SortValue(j, sort)
    IN  IF a = <<>> /\ b = <<>> THEN FALSE
        ELSE IF a = <<>> THEN sort.nones_order = "first"
        ELSE IF b = <<>> THEN sort.nones_order = "last"
        ELSE IF sort.direction = "ASC" THEN StrLt(a[1][2], b[1][2])
        ELSE StrLt(b[1][2], a[1][2])

Same(i, j, sort) == SortValue(i, sort) = SortValue(j, sort)

\* Record i belongs strictly before record j by the entries in order.
LexBefore(i, j, orderby) ==
    \E k \in DOMAIN orderby :
        /\ Before(i, j, orderby[k])
        /\ \A m \in 1..(k - 1) : Same(i, j, orderby[m])

\* C7. ORDER BY is a stable lexicographic sort: the rows of SELECT Person
\* ORDER BY k1, ..., kn are the Person rows ordered by k1 first, ties broken
\* by k2, and so on, each in its own direction, and two rows equal on every
\* entry keep the order they had before sorting, for ASC and DESC alike.
C7_StableLexicographicSort ==
    Done /\ q \in SortQueries =>
        /\ res.err = ""
        /\ Len(res.v) = 3
        /\ {Places[a] : a \in 1..3} = 1..3
        /\ \A a, b \in 1..3 :
              a < b =>
                  /\ ~LexBefore(Places[b], Places[a], q.orderby)
                  /\ (\A k \in DOMAIN q.orderby :
                          Same(Places[a], Places[b], q.orderby[k]))
                     => Places[a] < Places[b]

\* SELECT Person ORDER BY .tag DESC THEN .name ASC has returned on a database
\* where two Persons have the same tag and the same name, and a third one a
\* smaller tag.
C7_Witness ==
    /\ Done
    /\ q \in SortQueries
    /\ Len(q.orderby) = 2
    /\ q.orderby[1].direction = "DESC"
    /\ q.orderby[2].direction = "ASC"
    /\ Same(1, 3, q.orderby[1]) /\ Same(1, 3, q.orderby[2])
    /\ SortValue(1, q.orderby[1]) # <<>>
    /\ Before(1, 2, q.orderby[1])
    /\ Places = <<1, 3, 2>>

\* C8. Empties placement: for a single sort entry, of either direction,
\* every row whose sort path is empty comes before all rows with a value when
\* the placement is first, and after all of them when it is last.
C8_EmptiesPlacement ==
    Done /\ q \in SortQueries /\ Len(q.orderby) = 1 =>
        /\ res.err = ""
        /\ Len(res.v) = 3
        /\ \A a, b \in 1..3 :
              /\ SortValue(Places[a], q.orderby[1]) = <<>>
              /\ SortValue(Places[b], q.orderby[1]) # <<>>
              => IF q.orderby[1].nones_order = "first" THEN a < b ELSE b < a

\* SELECT Person ORDER BY .tag DESC EMPTY FIRST has returned on a database
\* where the second Person has no tag and the others have one.
C8_Witness ==
    /\ Done
    /\ q = OrderBy(Person(<<>>),
                   <<SortExpr(PartialPath(<<Fwd("tag")>>), "DESC", "first")>>)
    /\ "tag" \notin DOMAIN db[2]
    /\ "tag" \in DOMAIN db[1] /\ "tag" \in DOMAIN db[3]
    /\ Places[1] = 2

\* The constant that denotes a scalar value.
ConstantOf(v) ==
    IF Kind(v) = "int" THEN IntegerConstant(v[2]) ELSE StringConstant(v[2])

\* The expression e with every reference to x replaced by the constant c.
\* Inside a FOR that binds x again, the references in its result are to
\* that FOR's own x.
RECURSIVE Subst(_, _, _)
Subst(e, x, c) ==
    CASE e = Var(x) -> c
      [] e.k = "BinOp" ->
             [e EXCEPT !.left = Subst(@, x, c), !.right = Subst(@, x, c)]
      [] e.k \in {"Set", "Tuple"} ->
             [e EXCEPT !.elements = [i \in DOMAIN @ |-> Subst(@[i], x, c)]]
      [] e.k = "FunctionCall" ->
             [e EXCEPT !.args = [i \in DOMAIN @ |-> Subst(@[i], x, c)]]
      [] e.k = "ForQuery" ->
             [e EXCEPT !.iterator = Subst(@, x, c),
                       !.result = IF e.iterator_alias = x THEN @
                                  ELSE Subst(@, x, c)]
      [] OTHER -> e

IsFor(e) == e \in ForQueries \cup ForPathQueries

\* C9. FOR x IN I UNION R returns the concatenation, in the order of the
\* elements of I, of R evaluated with every reference to x bound to that
\* element: of SELECT R[x := v] for each element v of SELECT I in turn.
C9_ForBindsEachElement ==
    Done /\ IsFor(q) =>
        LET I == ResultOf(q.iterator).v
        IN  /\ res.err = ""
            /\ res.v = Flatten([i \in DOMAIN I |->
                          ResultOf(Subst(q.result, q.iterator_alias,
                                         ConstantOf(I[i]))).v])

\* The type of the record an object of a result stands for.
TypeOf(row) == Record(db, row[2][1][2]).__type__

\* C10. A type intersection step [IS N] applied to the object references
\* that a path denotes keeps each object whose record has __type__ N and
\* drops every other: SELECT p[IS N] returns the objects of SELECT p whose
\* type is N.
C10_IntersectKeepsObjectsOfType ==
    Done /\ q \in {Select(p) : p \in IntersectPaths} =>
        LET base == ResultOf(Path(Front(q.result.steps))).v
            N == Last(q.result.steps).type
        IN  /\ res.err = ""
            /\ res.v = SelectSeq(base, LAMBDA row : TypeOf(row) = StrV(N))

\* The rows of a SELECT that survive its FILTER, in the order of the result
\* expression, as indexes of Person records.
Survivors(s) ==
    LET kept == go(SelectQuery(<<>>, s.result, "", s.where, <<>>, NoneNode,
                               NoneNode), db).v
    IN  [a \in DOMAIN kept |-> RowIndex(kept[a])]

\* The expression of an OFFSET or LIMIT clause has more than one value.
ManyValued(e) == e # NoneNode /\ Len(ResultOf(e).v) > 1

\* Some sort path has more than one value on a row that survived the filter.
ManySorted(s) ==
    \E k \in DOMAIN s.orderby : \E a \in DOMAIN Survivors(s) :
        Len(SortValue(Survivors(s)[a], s.orderby[k])) > 1

\* C11. Cardinality violation is fatal: when the OFFSET or the LIMIT
\* expression of a SELECT has more than one value, or a sort path has more
\* than one value on a row that survived the filter, go ends with an error
\* and returns no multiset.
C11_CardinalityViolationIsFatal ==
    Done /\ q \in ClauseQueries
         /\ (ManyValued(q.offset) \/ ManyValued(q.limit) \/ ManySorted(q))
    => Failed(res) /\ res.v = <<>>

\* SELECT Person ORDER BY .name OFFSET {1, 2} LIMIT 1 has failed, and so has
\* SELECT Person FILTER EXISTS .tag ORDER BY .notes on a database where the
\* only Person with two notes has a tag.
C11_Witness ==
    /\ Done
    /\ q \in ClauseQueries
    /\ Failed(res)
    /\ \/ /\ q.offset = Lit(<<1, 2>>)
          /\ q.limit = IntegerConstant(1)
          /\ ~ManySorted(q)
       \/ /\ q.where # NoneNode
          /\ q.offset = NoneNode /\ q.limit = NoneNode
          /\ ManySorted(q)
          /\ Len(Survivors(q)) = 1

\* The objects of a type whose name is c, in the order of the database, as go
\* returns them.
Named(type, c) ==
    LET hit == SelectSeq(db, LAMBDA r : r.__type__ = StrV(type)
                                        /\ r.name = StrV(c))
    IN  [i \in DOMAIN hit |-> Dict(<<<<"id", hit[i].id>>>>)]

\* C12. In the FILTER of a SELECT the partial path denotes the result value of
\* that SELECT in the row: SELECT T FILTER .name = c returns the objects of T
\* named c, and SELECT Person FILTER EXISTS (SELECT Note FILTER .name = c),
\* where the inner SELECT is evaluated under the Partial column of the outer
\* one, returns every Person when some Note is named c and nothing otherwise.
C12_PartialPathIsRowResult ==
    /\ Done /\ q \in FlatPartialQueries =>
          /\ res.err = ""
          /\ res.v = Named(q.result.steps[1].name, q.where.right.value)
    /\ Done /\ q \in NestedPartialQueries =>
          /\ res.err = ""
          /\ res.v = IF Named(NoteT, q.where.operand.where.right.value) # <<>>
                     THEN ResultOf(Person(<<>>)).v
                     ELSE <<>>

\* The part of C12 on a SELECT that is not nested in a clause.
C12_FlatPartialPathIsRowResult ==
    Done /\ q \in FlatPartialQueries =>
        /\ res.err = ""
        /\ res.v = Named(q.result.steps[1].name, q.where.right.value)

\* The longest sequence that begins both paths.
CommonPrefix(p1, p2) ==
    LET n == CHOOSE k \in 0..Len(p1) :
                 /\ k <= Len(p2)
                 /\ SubSeq(p1, 1, k) = SubSeq(p2, 1, k)
                 /\ \A j \in (k + 1)..Len(p1) :
                        j <= Len(p2) => SubSeq(p1, 1, j) # SubSeq(p2, 1, j)
    IN  SubSeq(p1, 1, n)

\* D': the direct paths that start at an object reference.
ObjectRefs == SelectSeq(direct_refs, LAMBDA x : x[1][1] = "IORef")

\* C13. make_query_input_list(D, S, O) returns, without duplicates, exactly
\* the non-empty longest common prefixes of each path of D' (the paths of D
\* that start at an object reference) with itself, the paths after it in D'
\* and the paths of S, less the paths of O; so every path of D' that is not
\* in O is a column of the result.
C13_QueryInputListIsThePrefixSet ==
    pc = "done" =>
        /\ Range(qil) =
              (UNION {{CommonPrefix(ObjectRefs[i], y) :
                         y \in Range(SubSeq(ObjectRefs, i, Len(ObjectRefs)))
                               \cup Range(subquery_refs)} :
                      i \in DOMAIN ObjectRefs}
               \ {<<>>}) \ Range(old)
        /\ Cardinality(Range(qil)) = Len(qil)
        /\ \A i \in DOMAIN ObjectRefs :
              ObjectRefs[i] \notin Range(old) => ObjectRefs[i] \in Range(qil)

\* make_query_input_list([Person.notes.name, Person.name], S, [Person.name])
\* has returned [Person, Person.notes.name]: the common prefix Person is a
\* column, the path of O is not.
C13_Witness ==
    /\ pc = "done"
    /\ Len(direct_refs) = MaxRefs
    /\ direct_refs[1] = <<IORef(PersonT), IPtr("notes", ">"), IPtr("name", ">")>>
    /\ direct_refs[MaxRefs] = <<IORef(PersonT), IPtr("name", ">")>>
    /\ old = <<<<IORef(PersonT), IPtr("name", ">")>>>>
    /\ qil = <<<<IORef(PersonT)>>, direct_refs[1]>>

\* What subquery_full computes for the result of the top-level SELECT in q
\* before it evaluates it: the analysis, the query input list, and the input
\* tuples after the first n columns.
TopContext == EvalContext(<<>>, <<>>, <<>>, db)

Analysis == analyze_paths(q.result, <<NoneNode>>)

Columns ==
    make_query_input_list(Analysis.direct_paths, Analysis.subquery_paths, <<>>)

InputTuples(n) ==
    build_input_tuples(SubSeq(Columns, 1, n), 1, <<<<>>>>, Analysis,
                       TopContext).v

\* The evaluation of a path for a row that binds the first columns.
PathOn(path, row) ==
    eval_path(path, replace(TopContext, SubSeq(Columns, 1, Len(row)), row))

\* Steps that extend a path.
Extensions ==
    {<<>>, <<IPtr("name", ">")>>, <<IPtr("notes", ">"), IPtr("name", ">")>>,
     <<IPtr("notes", "<")>>, <<ITypeIntersection(NoteT)>>}

OptionalQueries == PathOptQueries \cup MixedOptQueries

\* C14. In the input tuples of a query, a column holds the missing marker
\* only if its path is always optional and evaluated to empty for the partial
\* row before it; a partial row on which a column that is not always optional
\* evaluates to empty begins no input tuple; and evaluating the path of a
\* missing slot, or an extension of it, gives the empty multiset and no
\* error.
C14_MissingMarker ==
    Done /\ q \in OptionalQueries =>
        \A n \in DOMAIN Columns :
            /\ \A t \in Range(InputTuples(n)) :
                  t[n] = None =>
                      /\ always_optional(Analysis, Columns[n])
                      /\ PathOn(Columns[n], Front(t)) = Ok(<<>>)
            /\ \A r \in Range(InputTuples(n - 1)) :
                  /\ ~always_optional(Analysis, Columns[n])
                  /\ PathOn(Columns[n], r).v = <<>>
                  => \A t \in Range(InputTuples(Len(Columns))) :
                         SubSeq(t, 1, n - 1) # r
            /\ \A t \in Range(InputTuples(Len(Columns))) :
                  t[n] = None =>
                      \A e \in Extensions :
                          PathOn(Columns[n] \o e, t) = Ok(<<>>)

\* SELECT (Person.name, Person.tag ?? {1}) has returned on a database where
\* only the second Person has no tag: its input tuple holds the missing
\* marker in the column Person.tag.
C14_Witness ==
    /\ Done
    /\ q = Select(TupleNode(<<Person(<<Fwd("name")>>),
                              BinOp(Person(<<Fwd("tag")>>), "??", Lit(<<1>>))>>))
    /\ "tag" \notin DOMAIN db[2]
    /\ "tag" \in DOMAIN db[1] /\ "tag" \in DOMAIN db[3]
    /\ Len(InputTuples(Len(Columns))) = 3
    /\ Last(InputTuples(Len(Columns))[2]) = None
    /\ Len(res.v) = 3

Min(a, b) == IF a < b THEN a ELSE b
Max(a, b) == IF a < b THEN b ELSE a

\* R: what the SELECT returns without its OFFSET and LIMIT clauses, the last
\* column of its filtered and ordered rows.
Unsliced(s) == go([s EXCEPT !.offset = NoneNode, !.limit = NoneNode], db)

\* C15. For a SELECT whose filtered and ordered rows are R, with OFFSET n and
\* LIMIT m, the result is R[n], ..., R[min(|R|, n + m) - 1] in that order
\* (counting from 0): offset is applied before limit, and the result has
\* min(m, max(0, |R| - n)) elements. When the rows cannot be ordered the
\* SELECT fails as it does without the two clauses.
C15_OffsetThenLimit ==
    Done /\ q \in ClauseQueries
         /\ q.offset.k = "IntegerConstant" /\ q.limit.k = "IntegerConstant"
    => LET R == Unsliced(q)
           n == q.offset.value
           m == q.limit.value
       IN  IF Failed(R) THEN res = R
           ELSE /\ res.err = ""
                /\ res.v = SubSeq(R.v, n + 1, Min(Len(R.v), n + m))
                /\ Len(res.v) = Min(m, Max(0, Len(R.v) - n))

\* SELECT Person ORDER BY .name OFFSET 1 LIMIT 1 has returned the second of
\* three rows, and that row is not the first Person of the database.
C15_Witness ==
    /\ Done
    /\ q \in ClauseQueries
    /\ q.where = NoneNode /\ q.orderby # <<>>
    /\ q.offset = IntegerConstant(1) /\ q.limit = IntegerConstant(1)
    /\ Len(Unsliced(q).v) = 3
    /\ res.v = <<Unsliced(q).v[2]>>
    /\ res.v # <<ResultOf(Person(<<>>)).v[2]>>

IsProperPrefix(p1, p2) ==
    Len(p1) < Len(p2) /\ SubSeq(p2, 1, Len(p1)) = p1

\* The values the steps lead to from one value.
Applied(v, steps) ==
    eval_path(<<IORef("$")>> \o steps,
              replace(TopContext, <<<<IORef("$")>>>>, <<v>>)).v

\* In the row, every column that extends a column with a value holds a value
\* its remaining steps lead to from that value, or is missing when there is
\* none.
Consistent(cols, row) ==
    \A i, j \in DOMAIN cols :
        IsProperPrefix(cols[i], cols[j]) /\ row[i] # None =>
            LET found == Applied(row[i],
                                 SubSeq(cols[j], Len(cols[i]) + 1, Len(cols[j])))
            IN  IF row[j] = None THEN found = <<>>
                ELSE row[j] \in Range(found)

\* What subquery_full computes for the operand of count in SELECT (a,
\* count(b)), for one input tuple of the SELECT.
IsCount(e) == e.k = "FunctionCall"

InnerAnalysis == analyze_paths(q.result.elements[2].args[1], <<>>)

InnerColumns ==
    make_query_input_list(InnerAnalysis.direct_paths,
                          InnerAnalysis.subquery_paths, Columns)

InnerTuples(row) ==
    build_input_tuples(InnerColumns, 1, <<row>>, InnerAnalysis,
                       replace(TopContext, Columns, row)).v

\* C16. Prefix consistency of input tuples: the query input list has every
\* path before its proper extensions, and in every input tuple a column that
\* extends a column with a value holds a value obtained from that value of
\* the same tuple by the remaining steps; so it is for the tuples of the
\* SELECT and for those of a subquery, which extend them.
C16_PrefixConsistency ==
    Done /\ q \in PrefixQueries \cup MixedOptQueries =>
        /\ \A i, j \in DOMAIN Columns :
              IsProperPrefix(Columns[i], Columns[j]) => i < j
        /\ \A t \in Range(InputTuples(Len(Columns))) :
              /\ Consistent(Columns, t)
              /\ IsCount(q.result.elements[2]) =>
                    \A u \in Range(InnerTuples(t)) :
                        Consistent(Columns \o InnerColumns, u)

\* SELECT (Person.notes.name, Person.tag) has returned on a database where
\* two Persons have notes and tags: the columns are Person, Person.notes.name
\* and Person.tag, and there are input tuples for two Persons.
C16_Witness ==
    /\ Done
    /\ q = Select(TupleNode(<<Person(<<Fwd("notes"), Fwd("name")>>),
                              Person(<<Fwd("tag")>>)>>))
    /\ Columns = <<<<IORef(PersonT)>>,
                   <<IORef(PersonT), IPtr("notes", ">"), IPtr("name", ">")>>,
                   <<IORef(PersonT), IPtr("tag", ">")>>>>
    /\ \E t, u \in Range(InputTuples(Len(Columns))) :
          t[1] # u[1] /\ t[2] # u[2] /\ t[3] # u[3]
    /\ Len(res.v) = Len(InputTuples(Len(Columns)))

\* The transactions the backend has begun and not finished after its first k
\* calls, and the position of the call that finished a transaction.
Finishes(n) ==
    {i \in DOMAIN backend :
        backend[i][1] \in {"commit", "rollback"} /\ backend[i][2] = n}

OpenAfter(k) ==
    {backend[i][2] : i \in {j \in Begun : j <= k}}
    \ {backend[i][2] :
          i \in {j \in DOMAIN backend : j <= k /\ backend[j][1] # "begin"}}

Greatest(S) == CHOOSE n \in S : \A o \in S : o <= n

\* The calls the backend received during the last call on the Session.
Made == SubSeq(backend, called.made + 1, Len(backend))

\* C17. The list xact of a Session is a LIFO stack of the open backend
\* transactions: it holds the transactions begun and not finished, oldest
\* first; every commit and rollback the backend received went to the most
\* recently begun transaction open at the time, and none received two; begin
\* begins one transaction and pushes it; rollback on an empty stack makes no
\* backend call; and rollback_all rolls back every open transaction once,
\* innermost first, and leaves the stack empty.
C17_XactIsLifoStack ==
    /\ Range(xact) = OpenAfter(Len(backend))
    /\ \A i, j \in DOMAIN xact : i < j => xact[i] < xact[j]
    /\ \A k \in DOMAIN backend :
          backend[k][1] # "begin" =>
              /\ OpenAfter(k - 1) # {}
              /\ backend[k][2] = Greatest(OpenAfter(k - 1))
    /\ \A n \in 1..MaxXacts : Cardinality(Finishes(n)) <= 1
    /\ called.method = "begin" =>
          /\ Len(Made) = 1 /\ Made[1][1] = "begin"
          /\ Made[1][2] \notin Range(called.xact)
          /\ xact = Append(called.xact, Made[1][2])
    /\ called.method \in {"commit", "rollback"} /\ called.xact # <<>> =>
          /\ Made = <<<<called.method, Last(called.xact)>>>>
          /\ xact = Front(called.xact)
    /\ called.method = "rollback" /\ called.xact = <<>> =>
          Made = <<>> /\ xact = <<>>
    /\ called.method = "rollback_all" =>
          /\ xact = <<>>
          /\ Made = [i \in DOMAIN called.xact |->
                       <<"rollback", called.xact[Len(called.xact) + 1 - i]>>]

\* begin, begin, commit, begin, rollback_all: the second transaction was
\* committed, and rollback_all rolled back the third and then the first.
C17_Witness ==
    /\ called.method = "rollback_all"
    /\ called.xact = <<1, 3>>
    /\ backend = <<<<"begin", 1>>, <<"begin", 2>>, <<"commit", 2>>,
                   <<"begin", 3>>, <<"rollback", 3>>, <<"rollback", 1>>>>
    /\ xact = <<>>

====
